---- MODULE Spec2Model ----
(***************************************************************************)
(* Adaboost_scratch of "Boosting methods.ipynb": the from-scratch discrete *)
(* AdaBoost (SAMME, two classes) trainer, one call as a state machine:     *)
(* Call (the initialisation), Round (one pass of the loop body), Finish    *)
(* (the vote, the printed accuracy and the return).                        *)
(*                                                                         *)
(* Numbers.  The notebook computes in float64.  The model computes in      *)
(* exact arithmetic extended with the IEEE special values the code can     *)
(* produce: a number is a record [n, d] of two naturals, the fraction n/d, *)
(* with d = 0 for the special values (1/0 is +inf, 0/0 is nan).  No        *)
(* negative number is ever needed.  Naturals are unbounded: a natural is   *)
(* the sequence of its base-1000 digits, least significant first.  A       *)
(* logarithm ln(q) is the record [ln |-> q] (ln 0 = -inf, ln inf = +inf);  *)
(* with an integer learning rate k, k * ln(q) = ln(q^k) stays in that      *)
(* form.  float64 rounding is not modelled.                                *)
(***************************************************************************)
EXTENDS Integers, Sequences, FiniteSets, TLC

-----------------------------------------------------------------------------
(* Unbounded naturals: base-1000 digit sequences, least significant first.  *)
(* Every operator keeps its recursion shallow (the carries, sums and        *)
(* quotient digits are found by position, sums are split in halves).        *)

Base == 1000

Max2(a, b) == IF a >= b THEN a ELSE b
Min2(a, b) == IF a <= b THEN a ELSE b

BZero == <<>>
BOne == <<1>>

(* the digit of a at position i, 0 outside a *)
Limb(a, i) == IF i >= 1 /\ i <= Len(a) THEN a[i] ELSE 0

(* the position of the most significant non-zero digit among s[1..i] *)
RECURSIVE Top(_, _)
Top(s, i) == IF i = 0 THEN 0 ELSE IF s[i] # 0 THEN i ELSE Top(s, i - 1)

Trim(s) == SubSeq(s, 1, Top(s, Len(s)))

(* a machine integer 0 <= k < 2^31 as a natural, and back for a < Base^3 *)
Big(k) == Trim(<<k % Base, (k \div Base) % Base,
                 (k \div (Base * Base)) % Base, k \div (Base * Base * Base)>>)

Small(a) == Len(a) <= 3
Val(a) == Limb(a, 1) + Base * Limb(a, 2) + Base * Base * Limb(a, 3)

(* the carry into position i of the digit sums s: a lower position         *)
(* overflowed and every position between passes the carry on               *)
RECURSIVE CarryIn(_, _)
CarryIn(s, i) ==
  IF i <= 1 THEN 0
  ELSE IF s[i - 1] >= Base THEN 1
  ELSE IF s[i - 1] = Base - 1 THEN CarryIn(s, i - 1)
  ELSE 0

AddDigits(s, n) == Trim([i \in 1..n |-> (s[i] + CarryIn(s, i)) % Base])

AddLong(a, b, n) ==
  AddDigits(SubSeq([i \in 1..n |-> Limb(a, i) + Limb(b, i)], 1, n), n)

BAdd(a, b) ==
  IF a = <<>> THEN b
  ELSE IF b = <<>> THEN a
  ELSE IF Small(a) /\ Small(b) THEN Big(Val(a) + Val(b))
  ELSE AddLong(a, b, Max2(Len(a), Len(b)) + 1)

RECURSIVE CmpFrom(_, _, _)
CmpFrom(a, b, i) ==
  IF i = 0 THEN 0
  ELSE IF a[i] < b[i] THEN -1
  ELSE IF a[i] > b[i] THEN 1
  ELSE CmpFrom(a, b, i - 1)

(* -1, 0, 1 as a < b, a = b, a > b *)
BCmp(a, b) ==
  IF Len(a) < Len(b) THEN -1
  ELSE IF Len(a) > Len(b) THEN 1
  ELSE IF a = b THEN 0
  ELSE CmpFrom(a, b, Len(a))

BLess(a, b) == BCmp(a, b) = -1
BLeq(a, b) == BCmp(a, b) # 1

(* the borrow into position i of the digit differences t *)
RECURSIVE BorrowIn(_, _)
BorrowIn(t, i) ==
  IF i <= 1 THEN 0
  ELSE IF t[i - 1] < 0 THEN 1
  ELSE IF t[i - 1] = 0 THEN BorrowIn(t, i - 1)
  ELSE 0

SubDigits(t, n) == Trim([i \in 1..n |-> (t[i] - BorrowIn(t, i) + Base) % Base])

(* a - b for a >= b *)
BSub(a, b) ==
  IF b = <<>> THEN a
  ELSE IF Small(a) THEN Big(Val(a) - Val(b))
  ELSE SubDigits(SubSeq([i \in 1..Len(a) |-> a[i] - Limb(b, i)], 1, Len(a)), Len(a))

(* sum of a[i] * b[k + 1 - i] for i in lo..hi *)
RECURSIVE ColSum(_, _, _, _, _)
ColSum(a, b, k, lo, hi) ==
  IF lo > hi THEN 0
  ELSE IF lo = hi THEN a[lo] * b[k + 1 - lo]
  ELSE ColSum(a, b, k, lo, (lo + hi) \div 2)
       + ColSum(a, b, k, ((lo + hi) \div 2) + 1, hi)

(* the number whose digit sums by position are col[1..n] < Base^3 *)
MulCols(col, n) ==
  BAdd(BAdd(Trim([k \in 1..n |-> col[k] % Base]),
            Trim([k \in 1..(n + 1) |->
                    IF k = 1 THEN 0 ELSE (col[k - 1] \div Base) % Base])),
       Trim([k \in 1..(n + 2) |->
               IF k <= 2 THEN 0 ELSE col[k - 2] \div (Base * Base)]))

MulLong(a, b, n) ==
  MulCols(SubSeq([k \in 1..n |->
                    ColSum(a, b, k, Max2(1, k + 1 - Len(b)), Min2(Len(a), k))],
                 1, n), n)

BMul(a, b) ==
  IF a = <<>> \/ b = <<>> THEN <<>>
  ELSE IF a = <<1>> THEN b
  ELSE IF b = <<1>> THEN a
  ELSE IF Len(a) + Len(b) <= 3 THEN Big(Val(a) * Val(b))
  ELSE MulLong(a, b, Len(a) + Len(b) - 1)

RECURSIVE BPow(_, _)
BPow(a, k) == IF k = 0 THEN BOne ELSE BMul(a, BPow(a, k - 1))

(* the quotient digit of r by b, for b <= r < Base * b: the leading digits  *)
(* r3 of r and b2 of b bracket it within a few candidates lo..hi            *)
QuotIn(r, b, lo, hi) ==
  CHOOSE c \in lo..hi :
    /\ BLeq(BMul(b, Big(c)), r)
    /\ c = hi \/ ~BLeq(BMul(b, Big(c + 1)), r)

QuotBracket(r, b, r3, b2) ==
  QuotIn(r, b, r3 \div (b2 + 1), Min2(Base - 1, r3 \div b2))

QuotDigit(r, b) ==
  QuotBracket(r, b,
              Limb(r, Len(b) + 1) * Base * Base + Limb(r, Len(b)) * Base
                + Limb(r, Len(b) - 1),
              b[Len(b)] * Base + Limb(b, Len(b) - 1))

(* long division of the digits a[1..i] after the higher digits left the    *)
(* remainder r < b: <<quotient digits, remainder>>                          *)
RECURSIVE DivStep(_, _, _, _)

DivPut(dg, lo) == <<Append(lo[1], dg), lo[2]>>

DivRest(a, b, i, r1, dg) ==
  IF dg = 0 THEN DivPut(dg, DivStep(a, b, i - 1, r1))
  ELSE DivPut(dg, DivStep(a, b, i - 1, BSub(r1, BMul(b, Big(dg)))))

DivDigit(a, b, i, r1) ==
  DivRest(a, b, i, r1, IF BLess(r1, b) THEN 0 ELSE QuotDigit(r1, b))

DivStep(a, b, i, r) ==
  IF i = 0 THEN <<<<>>, r>> ELSE DivDigit(a, b, i, Trim(<<a[i]>> \o r))

DivOut(qr) == <<Trim(qr[1]), qr[2]>>

(* <<quotient, remainder>> of a by b # 0 *)
BDivMod(a, b) ==
  IF BLess(a, b) THEN <<BZero, a>>
  ELSE IF Small(a) THEN <<Big(Val(a) \div Val(b)), Big(Val(a) % Val(b))>>
  ELSE DivOut(DivStep(a, b, Len(a) - Len(b) + 1,
                      SubSeq(a, Len(a) - Len(b) + 2, Len(a))))

(* Euclid's algorithm on <<a, b, p1, p0, q1, q0>>, carrying the last two    *)
(* convergents p1/q1, p0/q0 of the continued fraction of a/b; when b = 0,   *)
(* a is the gcd and p1/q1 is a/b in lowest terms.  GcdChunk steps at a time *)
GcdChunk == 10

EuclidNext(e, qr) ==
  <<e[2], qr[2], BAdd(BMul(qr[1], e[3]), e[4]), e[3],
                 BAdd(BMul(qr[1], e[5]), e[6]), e[5]>>

EuclidStep(e) == EuclidNext(e, BDivMod(e[1], e[2]))

RECURSIVE EuclidSteps(_, _)
EuclidSteps(e, k) ==
  IF k = 0 \/ e[2] = <<>> THEN e ELSE EuclidSteps(EuclidStep(e), k - 1)

RECURSIVE EuclidLoop(_)
EuclidLoop(e) ==
  IF e[2] = <<>> THEN e ELSE EuclidLoop(EuclidSteps(e, GcdChunk))

Euclid(a, b) == EuclidLoop(<<a, b, BOne, BZero, BZero, BOne>>)

BGcd(a, b) == Euclid(a, b)[1]

Convergent(e) == <<e[3], e[5]>>

(* <<a / g, b / g>> for g = gcd(a, b), b # 0 *)
Lowest(a, b) == Convergent(Euclid(a, b))

(* the sum of the naturals s[lo..hi] *)
RECURSIVE BSum(_, _, _)
BSum(s, lo, hi) ==
  IF lo > hi THEN BZero
  ELSE IF lo = hi THEN s[lo]
  ELSE BAdd(BSum(s, lo, (lo + hi) \div 2), BSum(s, ((lo + hi) \div 2) + 1, hi))

-----------------------------------------------------------------------------
(* float64 values: non-negative fractions n/d, +inf = 1/0, nan = 0/0, with  *)
(* the IEEE rules for the operations the code applies to them.              *)

Num(n, d) == [n |-> n, d |-> d]

RZero == Num(BZero, BOne)
ROne == Num(BOne, BOne)
Inf == Num(BOne, BZero)
NaN == Num(BZero, BZero)

IsNaN(x) == x.d = <<>> /\ x.n = <<>>
IsInf(x) == x.d = <<>> /\ x.n # <<>>
IsFinite(x) == x.d # <<>>
IsZero(x) == x.d # <<>> /\ x.n = <<>>

Pair(l) == Num(l[1], l[2])

(* n/d in lowest terms; the special values have one form each *)
RNorm(x) ==
  IF x.d = <<>> THEN (IF x.n = <<>> THEN NaN ELSE Inf)
  ELSE IF x.n = <<>> THEN RZero
  ELSE Pair(Lowest(x.n, x.d))

(* x < y and x == y; every comparison with nan is false *)
RLess(x, y) ==
  /\ ~IsNaN(x)
  /\ ~IsNaN(y)
  /\ ~IsInf(x)
  /\ \/ IsInf(y)
     \/ IF x.d = y.d THEN BLess(x.n, y.n)
        ELSE BLess(BMul(x.n, y.d), BMul(y.n, x.d))

REq(x, y) ==
  /\ ~IsNaN(x)
  /\ ~IsNaN(y)
  /\ IsInf(x) = IsInf(y)
  /\ \/ IsInf(x)
     \/ IF x.d = y.d THEN x.n = y.n
        ELSE BMul(x.n, y.d) = BMul(y.n, x.d)

RLeq(x, y) == RLess(x, y) \/ REq(x, y)

(* x + y: nan is absorbing, inf + anything else is inf *)
RAdd(x, y) ==
  IF IsNaN(x) \/ IsNaN(y) THEN NaN
  ELSE IF IsInf(x) \/ IsInf(y) THEN Inf
  ELSE IF x.d = y.d THEN Num(BAdd(x.n, y.n), x.d)
  ELSE Num(BAdd(BMul(x.n, y.d), BMul(y.n, x.d)), BMul(x.d, y.d))

(* x * y: nan is absorbing, inf * 0 is nan *)
RMul(x, y) ==
  IF IsNaN(x) \/ IsNaN(y) THEN NaN
  ELSE IF IsInf(x) \/ IsInf(y)
       THEN (IF IsZero(x) \/ IsZero(y) THEN NaN ELSE Inf)
  ELSE Num(BMul(x.n, y.n), BMul(x.d, y.d))

(* 1 / x: 1/0 is inf, 1/inf is 0 *)
RInv(x) == IF IsNaN(x) THEN NaN ELSE IF IsInf(x) THEN RZero
           ELSE IF IsZero(x) THEN Inf ELSE Num(x.d, x.n)

(* x / y: 0/0 and inf/inf are nan, x/0 is inf for x > 0 *)
RDiv(x, y) ==
  IF IsFinite(x) /\ IsFinite(y) /\ ~IsZero(y) /\ x.d = y.d THEN Num(x.n, y.n)
  ELSE RMul(x, RInv(y))

(* 1. - x for x <= 1 *)
OneMinus(x) ==
  IF IsNaN(x) THEN NaN
  ELSE Num(BSub(x.d, x.n), x.d)

RECURSIVE RPow(_, _)
RPow(x, k) == IF k = 1 THEN x ELSE RMul(x, RPow(x, k - 1))

(* the sum of the numbers s[lo..hi] of one common denominator *)
RSum(s, lo, hi) ==
  IF \E i \in lo..hi : IsNaN(s[i]) THEN NaN
  ELSE IF \E i \in lo..hi : IsInf(s[i]) THEN Inf
  ELSE Num(BSum([i \in lo..hi |-> s[i].n], lo, hi), s[lo].d)

(* Logarithms.  Log(q) is ln q; ln 0 = -inf, ln inf = +inf, ln nan = nan.   *)
Log(q) == [ln |-> q]
Exp(l) == l.ln

LogIsNaN(l) == IsNaN(l.ln)
LogIsFinite(l) == IsFinite(l.ln) /\ ~IsZero(l.ln)
LogPositive(l) == RLess(ROne, l.ln)
LogNegative(l) == RLess(l.ln, ROne)
LogIsZero(l) == REq(l.ln, ROne)

(* k * l for an integer k >= 1 *)
LogTimesInt(k, l) == Log(RPow(l.ln, k))

(* l * b for a boolean b (numpy: True is 1, False is 0): 0 for a finite l,  *)
(* nan for inf * 0.  The 0 is written ln(d/d) over the denominator of l so  *)
(* that the weights of one vector keep a common denominator.                *)
LogTimesBool(l, b) ==
  IF b THEN l
  ELSE IF LogIsFinite(l) THEN Log(Num(l.ln.d, l.ln.d))
  ELSE Log(NaN)

(* l * h for a prediction h in {-1, 1} *)
LogTimesSign(l, h) == IF h = 1 THEN l ELSE Log(RInv(l.ln))

(* l1 + l2: ln a + ln b = ln(a * b); inf + -inf = nan as inf * 0 *)
LogAdd(l1, l2) == Log(RMul(l1.ln, l2.ln))

(* np.sign replaced by a threshold (np.where(vote >= 0, 1, -1)): a vote of  *)
(* exactly zero counts as +1                                                *)
SignTieUp(l) ==
  IF LogIsNaN(l) THEN 2
  ELSE IF LogNegative(l) THEN -1
  ELSE 1

(* np.sign: 1, -1, 0; nan is written 2, a value equal to no label *)
Sign(l) ==
  IF LogIsNaN(l) THEN 2
  ELSE IF LogPositive(l) THEN 1
  ELSE IF LogNegative(l) THEN -1
  ELSE 0
-----------------------------------------------------------------------------
(* The weak learner: DecisionTreeClassifier(max_depth = 1, max_leaf_nodes = *)
(* 2), a decision stump.  fit chooses the split "feature f <= value v" that *)
(* maximises the Gini proxy                                                 *)
(*   (sum_k left_k^2) / W_left + (sum_k right_k^2) / W_right                *)
(* over the weighted class totals of the two sides; each leaf predicts its  *)
(* heavier class, the first class (-1) on a tie.  A pure root, or a         *)
(* training matrix with no two distinct values in any feature, gives a      *)
(* single leaf.  The weights of one vector share their denominator, so the  *)
(* stump is computed on the numerators.                                     *)

Labels == {-1, 1}

Classes(y) == {y[i] : i \in 1..Len(y)}

(* the weight of class c among the points S *)
ClassWeight(y, w, c, S) ==
  BSum([i \in 1..Len(y) |-> IF i \in S /\ y[i] = c THEN w[i].n ELSE BZero],
       1, Len(y))

(* the class a leaf holding the points S predicts *)
Majority(y, w, S) ==
  IF Classes(y) = {1} THEN 1
  ELSE IF BLess(ClassWeight(y, w, -1, S), ClassWeight(y, w, 1, S)) THEN 1
  ELSE -1

Leaf(c) == [feature |-> 0, below |-> 0, left |-> c, right |-> c]

(* estimator.predict on one row x *)
Predict(estimator, x) ==
  IF estimator.feature = 0 THEN estimator.left
  ELSE IF x[estimator.feature] <= estimator.below THEN estimator.left
  ELSE estimator.right

(* the split "feature f <= v" with the class weights lp, lq on its left    *)
(* and rp, rq on its right, of totals wl and wr: whether it is a split at   *)
(* all, its proxy pn / pd, and the stump it makes                           *)
SplitOf(f, v, lp, lq, rp, rq, wl, wr) ==
  [ok |-> wl # <<>> /\ wr # <<>>,
   pn |-> BAdd(BMul(BAdd(BMul(lp, lp), BMul(lq, lq)), wr),
               BMul(BAdd(BMul(rp, rp), BMul(rq, rq)), wl)),
   pd |-> BMul(wl, wr),
   est |-> [feature |-> f, below |-> v,
            left |-> IF BLess(lq, lp) THEN 1 ELSE -1,
            right |-> IF BLess(rq, rp) THEN 1 ELSE -1]]

SplitSides(f, v, lp, lq, rp, rq) ==
  SplitOf(f, v, lp, lq, rp, rq, BAdd(lp, lq), BAdd(rp, rq))

NoSplit == [ok |-> FALSE, pn |-> BZero, pd |-> BOne, est |-> Leaf(-1)]

(* the split of feature f just above the value of point i; none when no    *)
(* point lies above                                                         *)
SplitAt(X, y, w, f, i, L) ==
  IF L = 1..Len(y) THEN NoSplit
  ELSE SplitSides(f, X[i][f],
                  ClassWeight(y, w, 1, L), ClassWeight(y, w, -1, L),
                  ClassWeight(y, w, 1, (1..Len(y)) \ L),
                  ClassWeight(y, w, -1, (1..Len(y)) \ L))

SplitStat(X, y, w, f, i) ==
  SplitAt(X, y, w, f, i, {j \in 1..Len(y) : X[j][f] <= X[i][f]})

ProxyLess(s, t) == BLess(BMul(s.pn, t.pd), BMul(t.pn, s.pd))
ProxyEq(s, t) == BMul(s.pn, t.pd) = BMul(t.pn, s.pd)

(* of the positions a and b (0 for none), the one of greater proxy *)
Better(s, a, b) ==
  IF a = 0 THEN b
  ELSE IF b = 0 THEN a
  ELSE IF ProxyLess(s[a], s[b]) THEN b ELSE a

(* the position of a split of greatest proxy among s[lo..hi], 0 if none *)
RECURSIVE BestIdx(_, _, _)
BestIdx(s, lo, hi) ==
  IF lo = hi THEN (IF s[lo].ok THEN lo ELSE 0)
  ELSE Better(s, BestIdx(s, lo, (lo + hi) \div 2),
                 BestIdx(s, ((lo + hi) \div 2) + 1, hi))

(* the stumps of the splits that tie with the best one, s[b] *)
BestStumps(s, b, leaf) ==
  IF b = 0 THEN {leaf}
  ELSE {s[c].est : c \in {k \in 1..Len(s) : s[k].ok /\ ProxyEq(s[k], s[b])}}

BestOf(s, leaf) == BestStumps(s, BestIdx(s, 1, Len(s)), leaf)

(* the stumps fit may return on positive finite weights w: every split of   *)
(* greatest proxy.  sklearn visits the features in random order and keeps   *)
(* the first split of strictly greater proxy, and float rounding decides    *)
(* between splits that tie exactly, so all of them are possible.            *)
FitStump(X, y, w) ==
  IF \/ Cardinality(Classes(y)) = 1
     \/ ClassWeight(y, w, 1, 1..Len(y)) = <<>>
     \/ ClassWeight(y, w, -1, 1..Len(y)) = <<>>
  THEN {Leaf(Majority(y, w, 1..Len(y)))}
  ELSE BestOf(SubSeq([c \in 1..(Len(X[1]) * Len(y)) |->
                        SplitStat(X, y, w, ((c - 1) \div Len(y)) + 1,
                                           ((c - 1) % Len(y)) + 1)],
                     1, Len(X[1]) * Len(y)),
              Leaf(Majority(y, w, 1..Len(y))))

(* the same learner with its ties settled: the first of the tied splits in  *)
(* feature and threshold order, as a fixed random_state settles them the    *)
(* same way in every fit                                                    *)
FirstOf(S) ==
  CHOOSE e \in S : \A o \in S :
     \/ e.feature < o.feature
     \/ e.feature = o.feature /\ e.below <= o.below
-----------------------------------------------------------------------------
(* Inputs.  A training set is a matrix X (one row of integer features per   *)
(* point) with labels y in {-1, 1}: every one-feature set of at most MaxN   *)
(* points with values in 0..MaxVal, rows in ascending order, and two        *)
(* two-feature sets.                                                        *)

MaxN == 3
MaxVal == 2
MaxM == 4
MaxRate == 2
MaxCalls == 2

Line(N) ==
  {X \in [1..N -> {<<v>> : v \in 0..MaxVal}] :
     \A i \in 1..(N - 1) : X[i][1] <= X[i + 1][1]}

Lines ==
  UNION {{[X |-> X, y |-> y] : X \in Line(N), y \in [1..N -> Labels]} :
           N \in 1..MaxN}

(* four points that no single stump separates, labelled crosswise *)
Cross == [X |-> <<<<0, 0>>, <<0, 1>>, <<1, 0>>, <<1, 2>>>>,
          y |-> <<-1, 1, 1, -1>>]

(* five points, the label changing twice along the first feature *)
Band == [X |-> <<<<0, 1>>, <<1, 0>>, <<2, 2>>, <<3, 1>>, <<4, 0>>>>,
         y |-> <<1, 1, -1, -1, 1>>]

Datasets == Lines \cup {Cross, Band}

-----------------------------------------------------------------------------
VARIABLES
  X, y, M, learning_rate,  (* the arguments of the calls of this session    *)
  tie,                     (* how the learner settles tied splits           *)
  pc,                      (* "idle", "loop", "returned", "raised"          *)
  N, m,                    (* len(y); the number of rounds completed        *)
  sample_weight,
  estimator_list, y_predict_list, estimator_error_list,
  estimator_weight_list, sample_weight_list,
  stdout,                  (* what the call printed                         *)
  result,                  (* what the call returned                        *)
  error,                   (* the exception the call raised                 *)
  history                  (* what the earlier calls of the session left    *)

args == <<X, y, M, learning_rate, tie>>
locals == <<N, m, sample_weight, estimator_list, y_predict_list,
            estimator_error_list, estimator_weight_list, sample_weight_list>>
outs == <<stdout, result, error>>
vars == <<args, pc, locals, outs, history>>

None == <<>>

Idle ==
  /\ pc = "idle"
  /\ N = 0
  /\ m = 0
  /\ sample_weight = <<>>
  /\ estimator_list = <<>>
  /\ y_predict_list = <<>>
  /\ estimator_error_list = <<>>
  /\ estimator_weight_list = <<>>
  /\ sample_weight_list = <<>>
  /\ stdout = None
  /\ result = None
  /\ error = None
  /\ history = <<>>

Init ==
  /\ \E ds \in Datasets : X = ds.X /\ y = ds.y
  /\ M \in 0..MaxM
  /\ learning_rate \in 1..MaxRate
  /\ tie \in {"random", "first"}
  /\ Idle

(* np.ones(N) without the division *)
UniformOnes(n) == [i \in 1..n |-> ROne]

(* np.ones(N) / N *)
Uniform(n) == [i \in 1..n |-> Num(BOne, Big(n))]

(* what a finished call leaves to compare the next one with: its output    *)
(* and the records of its rounds                                            *)
Outcome ==
  [stdout |-> stdout, result |-> result, error |-> error,
   predictions |-> y_predict_list, errors |-> estimator_error_list,
   weights |-> estimator_weight_list, snapshots |-> sample_weight_list]

(* line 215 as a list that outlives the call (a module-level list or a     *)
(* mutable default argument): what the earlier call left is still in it     *)
KeptList(left) == left

(* line 215: each list name is bound to a new empty list, whatever an       *)
(* earlier call left                                                        *)
EmptyList(left) == <<>>

(* lines 212-219: the call binds its arguments and initialises its locals   *)
Call ==
  /\ pc \in {"idle", "returned", "raised"}
  /\ Len(history) < MaxCalls - 1 \/ pc = "idle"
  /\ history' = IF pc = "idle" THEN history ELSE Append(history, Outcome)
  /\ N' = Len(y)
  /\ estimator_list' = EmptyList(estimator_list)
  /\ y_predict_list' = EmptyList(y_predict_list)
  /\ estimator_error_list' = EmptyList(estimator_error_list)
  /\ estimator_weight_list' = EmptyList(estimator_weight_list)
  /\ sample_weight' = Uniform(Len(y))
  /\ sample_weight_list' = Append(EmptyList(sample_weight_list), Uniform(Len(y)))
  /\ m' = 0
  /\ pc' = "loop"
  /\ stdout' = None
  /\ result' = None
  /\ error' = None
  /\ UNCHANGED args

Raise(e) ==
  /\ pc' = "raised"
  /\ error' = e
  /\ UNCHANGED <<args, locals, stdout, result, history>>

Finite(w) == \A i \in 1..Len(w) : IsFinite(w[i])

(* line 225 without sample_weight = sample_weight: every learner is fitted  *)
(* on the weights of the initialisation                                     *)
FittedUnweighted ==
  IF tie = "first" THEN {FirstOf(FitStump(X, y, sample_weight_list[1]))}
  ELSE FitStump(X, y, sample_weight_list[1])

(* what estimator.fit(X, y, sample_weight) may return.  On nan weights no   *)
(* split beats the initial proxy and the tree is a single leaf.             *)
Fitted ==
  IF Finite(sample_weight)
  THEN (IF tie = "first" THEN {FirstOf(FitStump(X, y, sample_weight))}
        ELSE FitStump(X, y, sample_weight))
  ELSE {Leaf(c) : c \in Classes(y)}

(* the library versions that validate sample_weight reject nan and inf *)
FitRaises == ~Finite(sample_weight)

(* a(bool) * w elementwise *)
BoolTimes(b, w) ==
  IF b THEN w ELSE IF IsFinite(w) THEN Num(BZero, w.d) ELSE NaN

(* line 232: np.mean(np.average(incorrect, weights = sample_weight)) *)
WeightedError(incorrect, w) ==
  RNorm(RDiv(RSum([i \in 1..Len(w) |-> BoolTimes(incorrect[i], w[i])], 1, Len(w)),
             RSum(w, 1, Len(w))))

(* line 235 with the ratio upside down *)
EstimatorWeightInverted(rate, estimator_error) ==
  LogTimesInt(rate, Log(RDiv(estimator_error, OneMinus(estimator_error))))

(* line 235 guarded: an error of exactly 0 or 1 is moved off the boundary   *)
(* before the logarithm                                                     *)
EstimatorWeightClamped(rate, estimator_error) ==
  LogTimesInt(rate,
    IF IsZero(estimator_error) THEN Log(Num(Big(Base - 1), BOne))
    ELSE IF REq(estimator_error, ROne) THEN Log(Num(BOne, Big(Base - 1)))
    ELSE Log(RDiv(OneMinus(estimator_error), estimator_error)))

(* line 235 with the numerator 1 instead of 1 - estimator_error            *)
EstimatorWeightOfInverse(rate, estimator_error) ==
  LogTimesInt(rate, Log(RDiv(ROne, estimator_error)))

(* line 235: learning_rate * np.log((1. - estimator_error)/estimator_error) *)
EstimatorWeight(rate, estimator_error) ==
  LogTimesInt(rate, Log(RDiv(OneMinus(estimator_error), estimator_error)))

(* line 238 as the symmetric update: correct points scaled by exp(-alpha) *)
UpdateWeightSymmetric(w, estimator_weight, wrong) ==
  RMul(w, Exp(LogTimesSign(estimator_weight, IF wrong THEN 1 ELSE -1)))

(* line 238 with the mask upside down: the points the learner got right    *)
(* are the ones scaled                                                      *)
UpdateWeightCorrect(w, estimator_weight, wrong) ==
  RMul(w, Exp(LogTimesBool(LogTimesBool(estimator_weight, ~wrong),
                           RLess(RZero, w) \/ LogNegative(estimator_weight))))

(* line 238 left out: the weights stay as they are                          *)
UpdateWeightNone(w, estimator_weight, wrong) == w

(* line 238 without the factor incorrect: every entry is scaled            *)
UpdateWeightAll(w, estimator_weight, wrong) == RMul(w, Exp(estimator_weight))

(* line 238: sample_weight * np.exp(estimator_weight * incorrect *          *)
(*             ((sample_weight > 0) | (estimator_weight < 0))), one entry   *)
UpdateWeight(w, estimator_weight, wrong) ==
  RMul(w, Exp(LogTimesBool(LogTimesBool(estimator_weight, wrong),
                           RLess(RZero, w) \/ LogNegative(estimator_weight))))

(* The values one pass of the loop body computes, from the fitted estimator *)
(* on: the names are those of the body's locals.                            *)
RoundValues(estimator, y_predict, estimator_error, estimator_weight, new) ==
  [estimator |-> estimator, y_predict |-> y_predict,
   estimator_error |-> estimator_error, estimator_weight |-> estimator_weight,
   sample_weight |-> new]

(* line 238 with the mask read backwards (incorrect[::-1]): entry i is      *)
(* scaled by what happened to example N + 1 - i                             *)
BoostShifted(estimator, y_predict, incorrect, estimator_error, estimator_weight) ==
  RoundValues(estimator, y_predict, estimator_error, estimator_weight,
              SubSeq([i \in 1..N |->
                        UpdateWeight(sample_weight[i], estimator_weight,
                                     incorrect[N + 1 - i])], 1, N))

(* line 238 followed by the step of canonical AdaBoost the code leaves out: *)
(* sample_weight /= sample_weight.sum()                                     *)
BoostNormalised(estimator, y_predict, incorrect, estimator_error, estimator_weight) ==
  RoundValues(estimator, y_predict, estimator_error, estimator_weight,
              SubSeq([i \in 1..N |->
                        RDiv(UpdateWeight(sample_weight[i], estimator_weight,
                                          incorrect[i]),
                             RSum(SubSeq([j \in 1..N |->
                                            UpdateWeight(sample_weight[j],
                                                         estimator_weight,
                                                         incorrect[j])], 1, N),
                                  1, N))], 1, N))

(* line 238 *)
Boost(estimator, y_predict, incorrect, estimator_error, estimator_weight) ==
  RoundValues(estimator, y_predict, estimator_error, estimator_weight,
              SubSeq([i \in 1..N |->
                        UpdateWeight(sample_weight[i], estimator_weight,
                                     incorrect[i])], 1, N))

(* line 235 *)
Weigh(estimator, y_predict, incorrect, estimator_error) ==
  Boost(estimator, y_predict, incorrect, estimator_error,
        EstimatorWeight(learning_rate, estimator_error))

(* line 232 *)
Judge(estimator, y_predict, incorrect) ==
  Weigh(estimator, y_predict, incorrect,
        WeightedError(incorrect, sample_weight))

(* line 229 *)
Compare(estimator, y_predict) ==
  Judge(estimator, y_predict, SubSeq([i \in 1..N |-> y_predict[i] # y[i]], 1, N))

(* line 226 *)
Values(estimator) ==
  Compare(estimator, SubSeq([i \in 1..N |-> Predict(estimator, X[i])], 1, N))

(* lines 238-245 with the round's predictions written into the caller's     *)
(* label array (y[:] = y_predict)                                           *)
SaveOverLabels(v) ==
  /\ sample_weight' = v.sample_weight
  /\ estimator_list' = Append(estimator_list, v.estimator)
  /\ y_predict_list' = Append(y_predict_list, v.y_predict)
  /\ estimator_error_list' = Append(estimator_error_list, v.estimator_error)
  /\ estimator_weight_list' = Append(estimator_weight_list, v.estimator_weight)
  /\ sample_weight_list' = Append(sample_weight_list, v.sample_weight)
  /\ m' = m + 1
  /\ y' = v.y_predict
  /\ UNCHANGED <<X, M, learning_rate, tie, pc, N, outs, history>>

(* lines 238-245 with the snapshot appended without .copy(): every entry   *)
(* line 245 appended is the live array, which line 238 changes in place     *)
SaveAliased(v) ==
  /\ sample_weight' = v.sample_weight
  /\ estimator_list' = Append(estimator_list, v.estimator)
  /\ y_predict_list' = Append(y_predict_list, v.y_predict)
  /\ estimator_error_list' = Append(estimator_error_list, v.estimator_error)
  /\ estimator_weight_list' = Append(estimator_weight_list, v.estimator_weight)
  /\ sample_weight_list' =
       SubSeq([k \in 1..(Len(sample_weight_list) + 1) |->
                 IF k = 1 THEN sample_weight_list[1] ELSE v.sample_weight],
              1, Len(sample_weight_list) + 1)
  /\ m' = m + 1
  /\ UNCHANGED <<args, pc, N, outs, history>>

(* lines 238-245: sample_weight is updated in place and the round's values  *)
(* are appended to the lists                                                *)
Save(v) ==
  /\ sample_weight' = v.sample_weight
  /\ estimator_list' = Append(estimator_list, v.estimator)
  /\ y_predict_list' = Append(y_predict_list, v.y_predict)
  /\ estimator_error_list' = Append(estimator_error_list, v.estimator_error)
  /\ estimator_weight_list' = Append(estimator_weight_list, v.estimator_weight)
  /\ sample_weight_list' = Append(sample_weight_list, v.sample_weight)
  /\ m' = m + 1
  /\ UNCHANGED <<args, pc, N, outs, history>>

(* lines 226-245: the rest of the loop body once the estimator is fitted;   *)
(* np.average raises ZeroDivisionError on weights of sum 0                  *)
Body(estimator) ==
  IF IsZero(RSum(sample_weight, 1, N))
  THEN Raise("ZeroDivisionError")
  ELSE Save(Values(estimator))

(* line 221 with a break once a round is no better than chance *)
LoopDoneAtChance ==
  \/ m = M
  \/ m >= 1 /\ ~RLess(estimator_error_list[m], Num(BOne, Big(2)))

(* line 221: range(M) is exhausted *)
LoopDone == m = M

(* lines 221-245: one pass of "for m in range(M)" *)
Round ==
  /\ pc = "loop"
  /\ ~LoopDone
  /\ \/ FitRaises /\ Raise("ValueError")
     \/ \E estimator \in Fitted : Body(estimator)

(* line 255 without the confidence weights: every learner counts the same  *)
RECURSIVE VoteCount(_, _, _, _)
VoteCount(predicts, weights, point, k) ==
  IF k = 0 THEN Log(ROne)
  ELSE LogAdd(VoteCount(predicts, weights, point, k - 1),
              LogTimesSign(Log(Num(Big(2), BOne)), predicts[k][point]))

(* (y_predict_list[:, point] * estimator_weight_list).sum() over rounds 1..k *)
RECURSIVE VoteSum(_, _, _, _)
VoteSum(predicts, weights, point, k) ==
  IF k = 0 THEN Log(ROne)
  ELSE LogAdd(VoteSum(predicts, weights, point, k - 1),
              LogTimesSign(weights[k], predicts[k][point]))

(* line 255 *)
Preds(predicts, weights, n) ==
  [point \in 1..n |-> Sign(VoteSum(predicts, weights, point, Len(weights)))]

(* line 256: (preds == y).sum() / N *)
Accuracy(preds, labels) ==
  Num(Big(Cardinality({i \in 1..Len(labels) : preds[i] = labels[i]})),
      Big(Len(labels)))

(* line 258 with the learners and their weights zipped into pairs and the   *)
(* snapshots dropped                                                        *)
ReturnValuePairs(estimators, weights, snapshots) ==
  <<[k \in 1..Len(estimators) |-> <<estimators[k], weights[k]>>], weights>>

(* line 258 *)
ReturnValue(estimators, weights, snapshots) == <<estimators, weights, snapshots>>

(* lines 247-258: the loop is over; with no round the indexing of the empty *)
(* prediction array raises                                                  *)
Finish ==
  /\ pc = "loop"
  /\ LoopDone
  /\ IF M = 0
     THEN Raise("IndexError")
     ELSE /\ stdout' = <<"Accuracy = ",
                         Accuracy(Preds(y_predict_list, estimator_weight_list, N), y)>>
          /\ result' = ReturnValue(estimator_list, estimator_weight_list,
                                   sample_weight_list)
          /\ pc' = "returned"
          /\ UNCHANGED <<args, locals, error, history>>

Next == Call \/ Round \/ Finish

Spec == Init /\ [][Next]_vars

-----------------------------------------------------------------------------
(* The notebook's own run: the 23 points of the toy dataset, the features   *)
(* in hundredths, Adaboost_scratch(X, y, M = 10, learning_rate = 1).        *)

ToyX1 == <<10, 20, 40, 80, 80, 5, 8, 12, 33, 55, 66, 77, 88,
           20, 30, 40, 50, 60, 25, 30, 50, 70, 60>>
ToyX2 == <<20, 65, 70, 60, 30, 10, 40, 66, 77, 65, 68, 55, 44,
           10, 30, 40, 30, 15, 15, 50, 55, 20, 40>>
ToyY == <<1, 1, 1, 1, 1, 1, 1, 1, 1, 1, 1, 1, 1,
          -1, -1, -1, -1, -1, -1, -1, -1, -1, -1>>
ToyM == 10
ToyRate == 1

Toy == [X |-> [i \in 1..Len(ToyY) |-> <<ToyX1[i], ToyX2[i]>>], y |-> ToyY]

InitToy ==
  /\ X = Toy.X
  /\ y = Toy.y
  /\ M = ToyM
  /\ learning_rate = ToyRate
  /\ tie \in {"random", "first"}
  /\ Idle

SpecToy == InitToy /\ [][Next]_vars
-----------------------------------------------------------------------------
(* The loop body as a function of its inputs: any labels, any non-negative  *)
(* sample weights (zero included) and any stump as the fitted learner, not  *)
(* only the one fit would choose, for one round.                            *)

MaxWeight == 2

Stumps(rows) ==
  {Leaf(c) : c \in Labels} \cup
  {[feature |-> f, below |-> rows[i][f], left |-> l, right |-> r] :
     f \in 1..Len(rows[1]), i \in 1..Len(rows), l \in Labels, r \in Labels}

InitBody ==
  /\ \E ds \in Lines :
       /\ \A i \in 1..(Len(ds.y) - 1) : ds.X[i][1] < ds.X[i + 1][1]
       /\ X = ds.X
       /\ y = ds.y
  /\ M = 1
  /\ learning_rate \in 1..MaxRate
  /\ tie = "random"
  /\ pc = "loop"
  /\ N = Len(y)
  /\ m = 0
  /\ sample_weight \in [1..Len(y) -> {Num(Big(k), Big(MaxWeight)) : k \in 0..MaxWeight}]
  /\ estimator_list = <<>>
  /\ y_predict_list = <<>>
  /\ estimator_error_list = <<>>
  /\ estimator_weight_list = <<>>
  /\ sample_weight_list = <<sample_weight>>
  /\ stdout = None
  /\ result = None
  /\ error = None
  /\ history = <<>>

RoundAny ==
  /\ pc = "loop"
  /\ ~LoopDone
  /\ \E estimator \in Stumps(X) : Body(estimator)

NextBody == RoundAny \/ Finish

SpecBody == InitBody /\ [][NextBody]_vars
-----------------------------------------------------------------------------
(* Properties *)

Half == Num(BOne, Big(2))

Rounds == 1..Len(estimator_weight_list)

(* whether round k's learner misclassified point i *)
Missed(k, i) == y_predict_list[k][i] # y[i]

(* C1 as stated: a call that returns hands back exactly two things, the     *)
(* sequence of (learner, confidence weight) pairs and the final training    *)
(* accuracy.                                                                *)
C1_ReturnsPairsAndAccuracy ==
  pc = "returned" =>
    /\ Len(result) = 2
    /\ result[1] = [k \in 1..M |-> <<estimator_list[k], estimator_weight_list[k]>>]
    /\ result[2] = stdout[2]

(* C1 amended: a call that returns hands back three parallel arrays: the M  *)
(* learners in round order, their M confidence weights in the same order,   *)
(* and the M + 1 sample-weight snapshots; the accuracy is printed after the *)
(* label "Accuracy = " and is not among the returned values.                *)
C1_ReturnsThreeArrays ==
  pc = "returned" =>
    /\ Len(result) = 3
    /\ Len(result[1]) = M
    /\ Len(result[2]) = M
    /\ Len(result[3]) = M + 1
    /\ \A k \in 1..M :
         /\ y_predict_list[k] = [i \in 1..N |-> Predict(result[1][k], X[i])]
         /\ result[2][k] = estimator_weight_list[k]
         /\ result[3][k + 1] = sample_weight_list[k + 1]
    /\ result[3][1] = sample_weight_list[1]
    /\ Len(stdout) = 2
    /\ stdout[1] = "Accuracy = "
    /\ \A j \in 1..3 : DOMAIN result[j] = 1..Len(result[j])
    /\ DOMAIN stdout[2] = {"n", "d"}

C1_Witness ==
  /\ pc = "returned"
  /\ M >= 2
  /\ Len(result) = 3
  /\ \E k \in 1..M : result[1][k].feature # 0

(* C2: in every round with a finite confidence weight, a misclassified      *)
(* point's new weight is its old weight times exp(confidence weight) and a  *)
(* correctly classified point's weight keeps its value, whatever the sign   *)
(* of the confidence weight and also for an old weight of 0.                *)
C2_WeightUpdate ==
  \A k \in Rounds :
    LogIsFinite(estimator_weight_list[k]) =>
      \A i \in 1..N :
        IF Missed(k, i)
        THEN REq(sample_weight_list[k + 1][i],
                 RMul(sample_weight_list[k][i], Exp(estimator_weight_list[k])))
        ELSE REq(sample_weight_list[k + 1][i], sample_weight_list[k][i])

(* a round with a finite negative confidence weight that misclassified a    *)
(* point of weight 0 and a point of positive weight and classified another  *)
(* point of positive weight correctly                                       *)
C2_Witness ==
  \E k \in Rounds :
    /\ LogIsFinite(estimator_weight_list[k])
    /\ LogNegative(estimator_weight_list[k])
    /\ \E i \in 1..N : Missed(k, i) /\ IsZero(sample_weight_list[k][i])
    /\ \E i \in 1..N : Missed(k, i) /\ RLess(RZero, sample_weight_list[k][i])
                        /\ RLess(sample_weight_list[k + 1][i], sample_weight_list[k][i])
    /\ \E i \in 1..N : ~Missed(k, i) /\ RLess(RZero, sample_weight_list[k][i])

(* C3: every round's confidence weight a satisfies                          *)
(* exp(a) * error^rate = (1 - error)^rate, that is                          *)
(* a = learning_rate * ln((1 - error) / error) (+inf at error 0); it is     *)
(* positive whenever error < 0.5 and negative whenever error > 0.5.         *)
C3_ConfidenceWeight ==
  \A k \in Rounds :
    LET e == estimator_error_list[k]
        a == estimator_weight_list[k]
    IN  /\ IF IsNaN(e) THEN LogIsNaN(a)
           ELSE IF IsZero(e) THEN IsInf(Exp(a))
           ELSE REq(RMul(Exp(a), RPow(e, learning_rate)),
                    RPow(OneMinus(e), learning_rate))
        /\ RLess(e, Half) => LogPositive(a)
        /\ RLess(Half, e) => LogNegative(a)

(* a round whose error is above 0.5 and below 1 at learning rate 2, and a   *)
(* round below 0.5 is possible from the same start                          *)
C3_Witness ==
  \E k \in Rounds :
    /\ learning_rate >= 2
    /\ RLess(Half, estimator_error_list[k])
    /\ RLess(estimator_error_list[k], ROne)
    /\ LogNegative(estimator_weight_list[k])
    /\ LogIsFinite(estimator_weight_list[k])

(* C4 as stated: every round's weighted error lies in [0, 1].               *)
C4_ErrorInUnitInterval ==
  \A k \in 1..Len(estimator_error_list) :
    /\ RLeq(RZero, estimator_error_list[k])
    /\ RLeq(estimator_error_list[k], ROne)

(* C5: when the loop is entered the sample weights are 1/N each and sum to  *)
(* 1, and the first learner is one that fit returns on these weights.       *)
C5_UniformStart ==
  /\ (pc = "loop" /\ m = 0) =>
       /\ Len(sample_weight) = N
       /\ \A i \in 1..N : REq(RMul(sample_weight[i], Num(Big(N), BOne)), ROne)
       /\ REq(RSum(sample_weight, 1, N), ROne)
  /\ (pc \in {"loop", "returned"} /\ m >= 1) =>
       /\ sample_weight_list[1] = [i \in 1..N |-> Num(BOne, Big(N))]
       /\ estimator_list[1] \in FitStump(X, y, [i \in 1..N |-> Num(BOne, Big(N))])

C5_Witness ==
  /\ pc = "loop"
  /\ m = 1
  /\ N >= 3
  /\ estimator_list[1].feature # 0
  /\ \E i \in 1..N : ~REq(sample_weight[i], Num(BOne, Big(N)))

AllFinite == \A k \in Rounds : LogIsFinite(estimator_weight_list[k])

(* the accuracy of the vote of the first k rounds *)
AccuracyAfter(k) ==
  Accuracy(Preds(SubSeq(y_predict_list, 1, k), SubSeq(estimator_weight_list, 1, k), N), y)

(* C6: with M >= 1 and finite confidence weights, every step taken inside   *)
(* the loop is one more round, up to M of them, and a round is always       *)
(* possible until then (so the call cannot stop or hang before round M);    *)
(* the loop is left only after exactly M rounds and only by returning; the  *)
(* returned learner and confidence-weight lists have length M.              *)
C6_ExactlyMRounds ==
  /\ [][(pc = "loop" /\ M >= 1 /\ AllFinite)
          => IF pc' = "loop"
             THEN m < M /\ m' = m + 1 /\ Len(estimator_list') = m'
             ELSE m = M /\ m' = M /\ pc' = "returned"]_vars
  /\ []((pc = "loop" /\ M >= 1 /\ AllFinite)
          => /\ m <= M
             /\ m < M => (~LoopDone /\ Fitted # {}
                          /\ ~IsZero(RSum(sample_weight, 1, N))))
  /\ []((pc = "returned" /\ AllFinite)
          => /\ m = M
             /\ Len(estimator_error_list) = M
             /\ Len(result[1]) = M
             /\ Len(result[2]) = M)

(* a call of M >= 4 finite rounds has returned although a round before the  *)
(* last already left the vote right on every point; and one has returned    *)
(* whose first round had error exactly 0.5 (C6_WitnessChance)               *)
C6_Witness ==
  /\ pc = "returned"
  /\ M >= 4
  /\ AllFinite
  /\ Len(result[1]) = M
  /\ \E k \in 1..(M - 1) : REq(AccuracyAfter(k), ROne)

C6_WitnessChance ==
  /\ pc = "returned"
  /\ M >= 2
  /\ AllFinite
  /\ Len(result[1]) = M
  /\ REq(estimator_error_list[1], Half)
(* exp of the total confidence weight of the rounds among 1..k whose        *)
(* learner predicted the class side for the point                           *)
RECURSIVE SideWeight(_, _, _)
SideWeight(point, side, k) ==
  IF k = 0 THEN ROne
  ELSE RMul(SideWeight(point, side, k - 1),
            IF y_predict_list[k][point] = side
            THEN Exp(estimator_weight_list[k]) ELSE ROne)

(* the class of the point carries strictly more confidence weight than the  *)
(* other class: the sign of the weighted vote over all rounds is its label  *)
VotedRight(point) ==
  RLess(SideWeight(point, 0 - y[point], Len(estimator_weight_list)),
        SideWeight(point, y[point], Len(estimator_weight_list)))

(* C7: the accuracy printed by a call that returns is the number of points  *)
(* whose label is the sign of the confidence-weighted vote of all M rounds  *)
(* on them, divided by N.                                                   *)
C7_WeightedVoteAccuracy ==
  pc = "returned" =>
    /\ Len(estimator_weight_list) = M
    /\ stdout[2] = Num(Big(Cardinality({i \in 1..N : VotedRight(i)})), Big(N))

(* a returned call of three or more finite rounds whose learners disagreed  *)
(* on a point and whose vote is right on some points and wrong on others    *)
C7_Witness ==
  /\ pc = "returned"
  /\ M >= 3
  /\ AllFinite
  /\ \E i \in 1..N : VotedRight(i)
  /\ \E i \in 1..N : ~VotedRight(i)
  /\ \E i \in 1..N : \E k, l \in 1..M : y_predict_list[k][i] # y_predict_list[l][i]
(* every round of the call had a weighted error strictly below 0.5 *)
BelowChance == \A k \in Rounds : RLess(estimator_error_list[k], Half)

(* the sample weights after round a and after round b are proportional and  *)
(* every point's vote stands the same (round 0 is the start of the call):   *)
(* a deterministic learner then repeats rounds a+1..b after round b, for    *)
(* ever                                                                     *)
SameSituation(a, b) ==
  /\ \A i, j \in 1..N :
       REq(RMul(sample_weight_list[a + 1][i], sample_weight_list[b + 1][j]),
           RMul(sample_weight_list[a + 1][j], sample_weight_list[b + 1][i]))
  /\ \A i \in 1..N :
       REq(RMul(SideWeight(i, 1, a), SideWeight(i, -1, b)),
           RMul(SideWeight(i, 1, b), SideWeight(i, -1, a)))

(* C8 as stated: whenever every round is strictly better than chance, some  *)
(* round count gives training accuracy 1.0.  On a finite run: a call of a   *)
(* deterministic learner whose rounds were all better than chance has       *)
(* either been at accuracy 1.0 for some round count up to M, or has not     *)
(* come back to the situation of an earlier round (from where it would      *)
(* repeat for ever, better than chance in every round, without ever being   *)
(* at accuracy 1.0).                                                        *)
C8_BetterThanChanceReachesPerfect ==
  (pc = "returned" /\ tie = "first" /\ BelowChance) =>
    \/ \E k \in Rounds : REq(AccuracyAfter(k), ROne)
    \/ ~\E a, b \in 0..M : a < b /\ SameSituation(a, b)

(* every round of the call had a weighted error strictly between 0 and 0.5 *)
BetterThanChance ==
  \A k \in Rounds : /\ ~IsZero(estimator_error_list[k])
                    /\ RLess(estimator_error_list[k], Half)

(* the product over rounds 1..k of 4 * e * (1 - e), e the round's error *)
RECURSIVE ErrorProduct(_)
ErrorProduct(k) ==
  IF k = 0 THEN ROne
  ELSE RMul(ErrorProduct(k - 1),
            RMul(Num(Big(4), BOne),
                 RMul(estimator_error_list[k], OneMinus(estimator_error_list[k]))))

(* the square of the share of the training points the call got wrong *)
MissedSquare == RMul(OneMinus(stdout[2]), OneMinus(stdout[2]))

(* C8 (amended): with learning_rate = 1 and every round's error strictly     *)
(* between 0 and 0.5, the share of misclassified training points after the  *)
(* M rounds is at most the product over the rounds of                       *)
(* 2 * sqrt(e_m * (1 - e_m)) (compared here by the squares), so the         *)
(* accuracy is exactly 1.0 whenever that product is below 1/N.              *)
C8_TrainingErrorBound ==
  (pc = "returned" /\ learning_rate = 1 /\ BetterThanChance) =>
    /\ RLeq(MissedSquare, ErrorProduct(M))
    /\ RLess(ErrorProduct(M), Num(BOne, Big(N * N))) => REq(stdout[2], ROne)

(* a call with learning_rate = 1 whose first round left points wrong and    *)
(* whose errors then brought the product below 1/N: accuracy 1.0            *)
C8_Witness ==
  /\ pc = "returned"
  /\ learning_rate = 1
  /\ M >= 2
  /\ BetterThanChance
  /\ RLess(ErrorProduct(M), Num(BOne, Big(N * N)))
  /\ REq(stdout[2], ROne)
  /\ ~REq(AccuracyAfter(1), ROne)

(* C9: on the notebook's 23 points (13 labelled +1, 10 labelled -1), the    *)
(* call with M = 10 and learning_rate = 1 returns and prints a training     *)
(* accuracy of exactly 1.0.                                                 *)
C9_ToyAccuracy ==
  /\ pc # "raised"
  /\ pc = "returned" =>
       /\ Len(y) = 23
       /\ Cardinality({i \in 1..Len(y) : y[i] = 1}) = 13
       /\ Cardinality({i \in 1..Len(y) : y[i] = -1}) = 10
       /\ M = 10
       /\ learning_rate = 1
       /\ Len(estimator_weight_list) = 10
       /\ REq(stdout[2], ROne)

(* the call on the 23 points has returned after its 10 rounds with accuracy *)
(* 1.0, and its first learner alone did not classify every point            *)
C9_Witness ==
  /\ pc = "returned"
  /\ Len(y) = 23
  /\ Len(y_predict_list) = 10
  /\ REq(stdout[2], ROne)
  /\ \E i \in 1..Len(y) : Missed(1, i)

(* what the previous call of the session left *)
Previous == history[Len(history)]

(* round k of this call has the records round k of the previous call had *)
RoundAgrees(k) ==
  /\ k <= Len(Previous.predictions)
  /\ y_predict_list[k] = Previous.predictions[k]
  /\ estimator_error_list[k] = Previous.errors[k]
  /\ estimator_weight_list[k] = Previous.weights[k]
  /\ sample_weight_list[k + 1] = Previous.snapshots[k + 1]

(* C10: with a learner that settles ties the same way every time, a call    *)
(* that follows another call with the same arguments starts from the same   *)
(* weights, holds only its own rounds' records, repeats the previous call's *)
(* records (predictions, error, confidence weight, weight snapshot) in      *)
(* every round fitted on finite weights, and when all its rounds were,      *)
(* ends with the same output, the same accuracy and the same records.       *)
C10_Deterministic ==
  (tie = "first" /\ history # <<>> /\ pc # "idle") =>
    /\ Len(y_predict_list) = m
    /\ Len(estimator_error_list) = m
    /\ Len(estimator_weight_list) = m
    /\ Len(estimator_list) = m
    /\ Len(sample_weight_list) = m + 1
    /\ sample_weight_list[1] = Previous.snapshots[1]
    /\ \A k \in 1..m : Finite(sample_weight_list[k]) => RoundAgrees(k)
    /\ (/\ pc \in {"returned", "raised"}
        /\ \A k \in 1..Min2(M, m + 1) : Finite(sample_weight_list[k]))
         => Outcome = Previous

(* a second call of two or more finite rounds has returned what the first   *)
(* call returned, after rounds whose learners differed                      *)
C10_Witness ==
  /\ tie = "first"
  /\ history # <<>>
  /\ pc = "returned"
  /\ M >= 2
  /\ AllFinite
  /\ Outcome = Previous
  /\ y_predict_list[1] # y_predict_list[2]

(* C11: from the initialisation on (before round 1, after every round, at   *)
(* return or at an exception) the live weight vector and every recorded     *)
(* snapshot have exactly N = len(y) entries, and entry i belongs to         *)
(* example i: a round with a finite confidence weight leaves entry i as it  *)
(* was when the round's learner got example i right, and changes it when    *)
(* the learner got example i wrong (positive weight, confidence weight      *)
(* not 0).                                                                  *)
C11_WeightVectorAligned ==
  /\ [](pc # "idle" =>
          /\ N = Len(y)
          /\ Len(X) = N
          /\ Len(sample_weight) = N
          /\ \A k \in 1..Len(sample_weight_list) : Len(sample_weight_list[k]) = N)
  /\ [][(pc = "loop" /\ m' = m + 1 /\ LogIsFinite(estimator_weight_list'[m'])) =>
          \A i \in 1..N :
            IF y_predict_list'[m'][i] = y[i]
            THEN REq(sample_weight'[i], sample_weight[i])
            ELSE (RLess(RZero, sample_weight[i])
                  /\ ~LogIsZero(estimator_weight_list'[m']))
                   => ~REq(sample_weight'[i], sample_weight[i])]_vars

(* after two or more finite rounds on three or more examples the weights    *)
(* differ from one another, and the learner of the last round got some      *)
(* examples right and some wrong                                            *)
C11_Witness ==
  /\ pc = "loop"
  /\ m >= 2
  /\ N >= 3
  /\ AllFinite
  /\ \E i, j \in 1..N : ~REq(sample_weight[i], sample_weight[j])
  /\ \E i, j \in 1..N : Missed(m, i) /\ ~Missed(m, j)

(* C12: no step of a call changes the feature matrix X or the label vector  *)
(* y: after any number of rounds, at return and at an exception they are    *)
(* the values the call was given.                                           *)
C12_InputsUnchanged == [][X' = X /\ y' = y]_vars

(* a call has returned after two or more rounds that changed the weight     *)
(* vector in place; the inputs are still one of the training sets           *)
C12_Witness ==
  /\ pc = "returned"
  /\ M >= 2
  /\ AllFinite
  /\ \E i \in 1..N : ~REq(sample_weight[i], sample_weight_list[1][i])
  /\ [X |-> X, y |-> y] \in Datasets

(* the rounds recorded so far whose weighted error is exactly 0, and        *)
(* exactly 0 or 1                                                           *)
Perfect == {k \in Rounds : IsZero(estimator_error_list[k])}

Degenerate ==
  {k \in Rounds : IsZero(estimator_error_list[k]) \/ REq(estimator_error_list[k], ROne)}

(* C13 as stated: a round of error exactly 0 or 1 has a non-finite          *)
(* confidence weight, the call goes on through the remaining rounds         *)
(* without raising, and the predictions it returns are corrupted (not all   *)
(* of them right).                                                          *)
C13_SilentCorruption ==
  Degenerate # {} =>
    /\ \A k \in Degenerate : ~LogIsFinite(estimator_weight_list[k])
    /\ pc # "raised"
    /\ pc = "returned" => ~REq(stdout[2], ROne)

(* C13 (amended): the fitted stump never has a weighted error of exactly 1, *)
(* and an error of exactly 0 only in round 1.  That round gets the          *)
(* confidence weight +inf, unclamped, and leaves every sample weight nan.   *)
(* With M = 1 the call returns with accuracy 1.0 (the infinite weight       *)
(* decides every vote for a learner that is right everywhere).  With        *)
(* M >= 2 either fit raises ValueError in a later round and the call        *)
(* returns nothing, or the call goes on with error nan and confidence       *)
(* weight nan in every later round and returns with accuracy 0.0.           *)
C13_DegenerateRound ==
  /\ \A k \in Rounds : ~REq(estimator_error_list[k], ROne)
  /\ Perfect \subseteq {1}
  /\ \A k \in Perfect :
       /\ IsInf(Exp(estimator_weight_list[k]))
       /\ \A i \in 1..N : IsNaN(sample_weight_list[k + 1][i])
       /\ \A j \in Rounds : j > k => /\ IsNaN(estimator_error_list[j])
                                     /\ LogIsNaN(estimator_weight_list[j])
  /\ (pc = "returned" /\ Perfect # {}) =>
       IF M \in Perfect THEN REq(stdout[2], ROne) ELSE IsZero(stdout[2])
  /\ (pc = "raised" /\ Perfect # {}) =>
       /\ error = "ValueError"
       /\ m < M

(* a call whose first round had error 0 went on for two or more rounds and  *)
(* returned with accuracy 0.0                                               *)
C13_Witness ==
  /\ pc = "returned"
  /\ M >= 3
  /\ 1 \in Perfect
  /\ IsZero(stdout[2])

(* a call of one round, of error 0, returned *)
C13_WitnessLast ==
  /\ pc = "returned"
  /\ N >= 2
  /\ Perfect = {M}
  /\ REq(stdout[2], ROne)

(* a call raised in the round after a round of error 0 *)
C13_WitnessRaised ==
  /\ pc = "raised"
  /\ Perfect # {}
  /\ error = "ValueError"

(* C14: a call with M = 0 completes: it does not raise, and what it returns *)
(* is an empty ensemble with a printed accuracy.                            *)
C14_ZeroRoundsCompletes ==
  M = 0 =>
    /\ pc # "raised"
    /\ pc = "returned" => /\ Len(result[1]) = 0
                          /\ Len(result[2]) = 0
                          /\ Len(stdout) = 2

(* the weight snapshot k (snapshot 0 is the vector of the initialisation)   *)
Snapshot(k) == sample_weight_list[k + 1]

(* the total weight in snapshot k of the examples round j's learner got     *)
(* wrong                                                                    *)
MissedWeight(j, k) ==
  RSum(SubSeq([i \in 1..N |->
                 IF Missed(j, i) THEN Snapshot(k)[i]
                 ELSE Num(BZero, Snapshot(k)[i].d)], 1, N), 1, N)

(* round k was made from the weights round k - 1 left: its learner is a     *)
(* stump fit returns on snapshot k - 1, its predictions are that learner's, *)
(* its error is the share of snapshot k - 1 on the examples it got wrong,   *)
(* its confidence weight is computed from that error, and snapshot k is     *)
(* snapshot k - 1 with the wrong examples scaled by exp(confidence weight)  *)
Sequential(k) ==
  /\ estimator_list[k] \in FitStump(X, y, Snapshot(k - 1))
  /\ \A i \in 1..N : y_predict_list[k][i] = Predict(estimator_list[k], X[i])
  /\ REq(RMul(estimator_error_list[k], RSum(Snapshot(k - 1), 1, N)),
         MissedWeight(k, k - 1))
  /\ REq(Exp(estimator_weight_list[k]),
         RPow(RDiv(OneMinus(estimator_error_list[k]), estimator_error_list[k]),
              learning_rate))
  /\ \A i \in 1..N :
       REq(Snapshot(k)[i],
           IF Missed(k, i) THEN RMul(Snapshot(k - 1)[i], Exp(estimator_weight_list[k]))
           ELSE Snapshot(k - 1)[i])

(* C15: the rounds are strictly sequential.  With finite confidence weights *)
(* there is one snapshot more than rounds made, snapshot 0 is the uniform   *)
(* vector, the live vector is the last snapshot, every round m is made      *)
(* from snapshot m - 1 and leaves snapshot m, and the call returns the      *)
(* M + 1 snapshots.                                                         *)
C15_RoundsSequential ==
  (pc \in {"loop", "returned"} /\ AllFinite) =>
    /\ Len(sample_weight_list) = m + 1
    /\ Len(estimator_list) = m
    /\ \A i \in 1..N : REq(Snapshot(0)[i], Num(BOne, Big(N)))
    /\ \A i \in 1..N : REq(sample_weight[i], Snapshot(m)[i])
    /\ \A k \in 1..m : Sequential(k)
    /\ pc = "returned" => /\ Len(result[3]) = M + 1
                          /\ result[3] = sample_weight_list

(* a call of three or more finite rounds has returned; its first two        *)
(* rounds have different learners and its first three snapshots differ      *)
C15_Witness ==
  /\ pc = "returned"
  /\ M >= 3
  /\ AllFinite
  /\ estimator_list[1] # estimator_list[2]
  /\ \E i \in 1..N : ~REq(Snapshot(0)[i], Snapshot(1)[i])
  /\ \E i \in 1..N : ~REq(Snapshot(1)[i], Snapshot(2)[i])

(* every entry of the list before the step is still there after it *)
Kept(before, after) ==
  /\ Len(after) >= Len(before)
  /\ SubSeq(after, 1, Len(before)) = before

(* C16: no step of a call changes a record already appended: a round or     *)
(* the return leaves every recorded learner, prediction vector, error,      *)
(* confidence weight and weight snapshot as it was, and the arrays          *)
(* returned hold the records as they were appended.                         *)
C16_RecordsImmutable ==
  [][pc = "loop" =>
       /\ Kept(estimator_list, estimator_list')
       /\ Kept(y_predict_list, y_predict_list')
       /\ Kept(estimator_error_list, estimator_error_list')
       /\ Kept(estimator_weight_list, estimator_weight_list')
       /\ Kept(sample_weight_list, sample_weight_list')
       /\ pc' = "returned" => /\ result'[1] = estimator_list
                              /\ result'[2] = estimator_weight_list
                              /\ result'[3] = sample_weight_list]_vars

(* a call of two or more finite rounds has returned: the live weight vector *)
(* has moved on from the snapshot of round 1, which is returned as recorded *)
C16_Witness ==
  /\ pc = "returned"
  /\ M >= 2
  /\ AllFinite
  /\ \E i \in 1..N : ~REq(sample_weight[i], Snapshot(1)[i])
  /\ result[3][2] = Snapshot(1)

(* the sum of the weights in snapshot k *)
TotalWeight(k) == RSum(Snapshot(k), 1, N)

(* round k had a weighted error strictly between 0 and 0.5 *)
Useful(k) ==
  /\ ~IsZero(estimator_error_list[k])
  /\ RLess(estimator_error_list[k], Half)

(* C17: the weights are never divided by their sum.  A round with an error  *)
(* strictly between 0 and 0.5 got an example of positive weight wrong and   *)
(* leaves the sum of the weights strictly greater than it found it; the sum *)
(* starts at 1 and is above 1 after such a round.                           *)
C17_NoRenormalisation ==
  pc \in {"loop", "returned"} =>
    /\ REq(TotalWeight(0), ROne)
    /\ \A k \in Rounds :
         (Useful(k) /\ Finite(Snapshot(k - 1))) =>
           /\ \E i \in 1..N : Missed(k, i) /\ RLess(RZero, Snapshot(k - 1)[i])
           /\ RLess(TotalWeight(k - 1), TotalWeight(k))
           /\ RLess(ROne, TotalWeight(k))

(* two rounds in a row had errors strictly between 0 and 0.5: the sum of    *)
(* the weights went up twice                                                *)
C17_Witness ==
  /\ pc = "loop"
  /\ m >= 2
  /\ Useful(1)
  /\ Useful(2)
  /\ RLess(TotalWeight(0), TotalWeight(1))
  /\ RLess(TotalWeight(1), TotalWeight(2))

(* the product of exp(confidence weight) over the rounds among 1..k whose   *)
(* learner got example i wrong                                              *)
RECURSIVE MissedFactor(_, _)
MissedFactor(i, k) ==
  IF k = 0 THEN ROne
  ELSE RMul(MissedFactor(i, k - 1),
            IF Missed(k, i) THEN Exp(estimator_weight_list[k]) ELSE ROne)

(* C18: while every confidence weight is finite, the weight of example i    *)
(* after round k is 1/N times the product of exp(confidence weight) over    *)
(* the rounds up to k that got example i wrong; every weight is strictly    *)
(* positive, and an example never got wrong still has weight exactly 1/N.   *)
C18_ClosedForm ==
  (pc \in {"loop", "returned"} /\ AllFinite) =>
    \A k \in 0..m : \A i \in 1..N :
      /\ REq(Snapshot(k)[i], RMul(Num(BOne, Big(N)), MissedFactor(i, k)))
      /\ RLess(RZero, Snapshot(k)[i])
      /\ (\A j \in 1..k : ~Missed(j, i)) => REq(Snapshot(k)[i], Num(BOne, Big(N)))

(* after three finite rounds one example was got wrong twice, another one   *)
(* never                                                                    *)
C18_Witness ==
  /\ pc = "loop"
  /\ m >= 3
  /\ AllFinite
  /\ \E i \in 1..N : \E j, k \in 1..m : j < k /\ Missed(j, i) /\ Missed(k, i)
  /\ \E i \in 1..N : \A k \in 1..m : ~Missed(k, i)

(* C19: with learning_rate = 1, a round with an error strictly between 0    *)
(* and 1 leaves the examples its learner got wrong with exactly half of the *)
(* total weight: under the weights after the update the weighted error of   *)
(* that learner is 1/2.                                                     *)
C19_HalfAfterUpdate ==
  (pc \in {"loop", "returned"} /\ learning_rate = 1) =>
    \A k \in Rounds :
      (/\ ~IsZero(estimator_error_list[k])
       /\ RLess(estimator_error_list[k], ROne)) =>
        /\ RLess(RZero, TotalWeight(k))
        /\ REq(RDiv(MissedWeight(k, k), TotalWeight(k)), Half)

(* a round with learning_rate = 1, an error strictly between 0.5 and 1 and  *)
(* an example of weight 0 has been made                                     *)
C19_Witness ==
  /\ learning_rate = 1
  /\ m = 1
  /\ RLess(Half, estimator_error_list[1])
  /\ RLess(estimator_error_list[1], ROne)
  /\ \E i \in 1..N : IsZero(Snapshot(0)[i])
  /\ REq(RDiv(MissedWeight(1, 1), TotalWeight(1)), Half)

(* the weights and every point's vote are the same after round j as after   *)
(* round k                                                                  *)
Still(k, j) ==
  /\ \A i \in 1..N : REq(Snapshot(j)[i], Snapshot(k)[i])
  /\ \A i \in 1..N :
       REq(RMul(SideWeight(i, 1, j), SideWeight(i, -1, k)),
           RMul(SideWeight(i, 1, k), SideWeight(i, -1, j)))

(* C20: a round with a weighted error of exactly 0.5 has confidence weight  *)
(* 0 and leaves every sample weight and every vote as it found them; with   *)
(* a learner that settles ties the same way every time, every later round   *)
(* of the call has the same learner, error 0.5 and confidence weight 0, and *)
(* the weights and the votes stay as they were.                             *)
C20_StuckAtChance ==
  pc \in {"loop", "returned"} =>
    \A k \in Rounds :
      REq(estimator_error_list[k], Half) =>
        /\ LogIsZero(estimator_weight_list[k])
        /\ Still(k - 1, k)
        /\ tie = "first" =>
             \A j \in Rounds :
               j > k => /\ estimator_list[j] = estimator_list[k]
                        /\ y_predict_list[j] = y_predict_list[k]
                        /\ REq(estimator_error_list[j], Half)
                        /\ LogIsZero(estimator_weight_list[j])
                        /\ Still(k - 1, j)

(* a call came to an error of exactly 0.5 in its second round, after a      *)
(* round that changed the weights, and has returned after two more rounds   *)
C20_Witness ==
  /\ pc = "returned"
  /\ tie = "first"
  /\ M >= 4
  /\ Useful(1)
  /\ REq(estimator_error_list[2], Half)
  /\ Still(1, M)

(* line 255 for one point: the sign of its confidence-weighted vote *)
Output(point) ==
  Sign(VoteSum(y_predict_list, estimator_weight_list, point,
               Len(estimator_weight_list)))

(* the points whose vote sums to exactly zero: the rounds that predicted +1 *)
(* carry the same confidence weight as the rounds that predicted -1         *)
Tied ==
  {i \in 1..N : REq(SideWeight(i, 1, Len(estimator_weight_list)),
                    SideWeight(i, -1, Len(estimator_weight_list)))}

(* C21: in a call that returns with finite confidence weights every output  *)
(* is -1, 0 or +1; the output of a point whose vote sums to exactly zero is *)
(* 0, which is not its label whatever the label is, so the printed accuracy *)
(* counts none of those points.                                             *)
C21_ZeroVoteIsWrong ==
  (pc = "returned" /\ AllFinite) =>
    /\ \A i \in 1..N : Output(i) \in {-1, 0, 1}
    /\ \A i \in Tied : Output(i) = 0 /\ Output(i) # y[i]
    /\ \A i \in 1..N : Output(i) = 0 => i \in Tied
    /\ RLeq(stdout[2], Num(Big(N - Cardinality(Tied)), Big(N)))

(* a call has returned with votes of exactly zero on a point labelled +1    *)
(* and on a point labelled -1, made of confidence weights that are not 0    *)
C21_Witness ==
  /\ pc = "returned"
  /\ AllFinite
  /\ \E k \in Rounds : ~LogIsZero(estimator_weight_list[k])
  /\ \E i, j \in Tied : y[i] = 1 /\ y[j] = -1
  /\ RLeq(stdout[2], Num(Big(N - 2), Big(N)))
====
